---- MODULE Spec2Model ----
(***************************************************************************)
(* Model of citibike_postgres.py: the aggregation of raw trip rows into    *)
(* per-station-pair counts (extract_from_trip_fact), the reconciliation    *)
(* of those counts with the persisted table most_used_routes               *)
(* (reduceByKey_most_used_routes) and the planning and application of the  *)
(* inserts and updates (modify_most_used_routes), as sequenced by main.    *)
(*                                                                         *)
(* Every run of the program is a process p with its own psycopg2           *)
(* connection.  The tables live in one PostgreSQL database: `routes` is    *)
(* the committed content of most_used_routes, work[p] the uncommitted      *)
(* writes of p's open transaction.                                         *)
(***************************************************************************)
EXTENDS Integers, Sequences, FiniteSets, TLC

VARIABLES
    pc,            \* pc[p]: the statement process p is at
    script,        \* script[p]: the calls of main still to be made by p
    trip_fact,     \* rows of table trip_fact
    trip_fact_stg, \* rows of table trip_fact_stg
    routes,        \* committed rows of table most_used_routes
    next_id,       \* next value of the serial sequence behind route_id
    cur,           \* cur[p]: rows the open cursor of p has still to return
    total,         \* total[p]: dict (start id, end id) -> number of trips
    names,         \* names[p]: dict station id -> station name
    total_names,   \* total_names[p]: dict (start name, end name) -> entry
    insert_array,  \* insert_array[p]: parameter tuples of the insert batch
    update_array,  \* update_array[p]: parameter tuples of the update batch
    work,          \* work[p]: uncommitted writes of p's transaction
    extracted,     \* history: total_names[p] as extract_from_trip_fact returned it
    before,        \* history: routes when p entered modify_most_used_routes
    hist,          \* history: the reads and commits on most_used_routes, in order
    only_insert    \* only_insert[p]: the argument of modify_most_used_routes

vars == <<pc, script, trip_fact, trip_fact_stg, routes, next_id, cur, total,
          names, total_names, insert_array, update_array, work, extracted,
          before, hist, only_insert>>

(***************************************************************************)
(* Bounds of the model.                                                    *)
(***************************************************************************)
MaxRows == 3        \* raw trip rows scanned by one extraction on its own
MaxFactRows == 1    \* raw trip rows loaded into trip_fact by main
MaxStgRows == 1     \* raw trip rows loaded into trip_fact_stg by main
MaxPersisted == 2   \* rows of most_used_routes a batch starts from
MaxKeys == 2        \* station pairs of a batch's mapping
MaxCount == 2       \* trips per station pair of a batch and of a persisted row

\* The trip counts the initial mappings and persisted rows are drawn from.
Counts == {1, MaxCount}

Procs == {1, 2}
StationIds == {1, 2}
StationNames == {"A", "B"}

\* Python's None, as the route_id of a pair that reconciliation has not matched.
\* Route ids come from a serial column and are at least 1.
None == -1

Range(s) == {s[i] : i \in DOMAIN s}

SeqsUpTo(S, n) == UNION {[1..k -> S] : k \in 0..n}

\* The orders in which a dict can hand out the keys of S.
Orders(S) == {o \in [1..Cardinality(S) -> S] : \A i, j \in DOMAIN o : o[i] = o[j] => i = j}

EmptyDict == <<>>

(***************************************************************************)
(* select_from_table: the position of every selected identifier.           *)
(***************************************************************************)
id_idx(id_names) ==
    [name \in Range(id_names) |-> CHOOSE i \in DOMAIN id_names : id_names[i] = name]

trip_id_names ==
    <<"start station id", "start station name", "end station id", "end station name">>

route_id_names == <<"route_id", "start_station_name", "end_station_name", "num_trips">>

\* The id_idx that select_from_table returns to extract_from_trip_fact and
\* to reduceByKey_most_used_routes.
trip_idx == id_idx(trip_id_names)

route_idx == id_idx(route_id_names)

\* A raw trip row as the SELECT of extract_from_trip_fact returns it.
TripRows == StationIds \X StationNames \X StationIds \X StationNames

\* ScanTotal with the else branch assigning 1 instead of adding 1.
ScanTotalReset(tot, row) ==
    LET idx == trip_idx
        key == <<row[idx["start station id"]], row[idx["end station id"]]>>
    IN  IF key \notin DOMAIN tot
        THEN tot @@ (key :> 1)
        ELSE [tot EXCEPT ![key] = 1]

\* ScanTotal with the two ids of the key put in ascending order.
ScanTotalUnordered(tot, row) ==
    LET idx == trip_idx
        sid == row[idx["start station id"]]
        eid == row[idx["end station id"]]
        key == IF sid <= eid THEN <<sid, eid>> ELSE <<eid, sid>>
    IN  IF key \notin DOMAIN tot
        THEN tot @@ (key :> 1)
        ELSE [tot EXCEPT ![key] = @ + 1]

\* ScanNames without the `not in names` tests: the last name seen is kept.
ScanNamesLast(nms, row) ==
    LET idx == trip_idx
        sid == row[idx["start station id"]]
        eid == row[idx["end station id"]]
        n1  == [id \in DOMAIN nms \cup {sid} |->
                   IF id = sid THEN row[idx["start station name"]] ELSE nms[id]]
    IN  [id \in DOMAIN n1 \cup {eid} |->
            IF id = eid THEN row[idx["end station name"]] ELSE n1[id]]

(***************************************************************************)
(* extract_from_trip_fact, the body of the `while row` loop.               *)
(***************************************************************************)
ScanTotal(tot, row) ==
    LET idx == trip_idx
        key == <<row[idx["start station id"]], row[idx["end station id"]]>>
    IN  IF key \notin DOMAIN tot
        THEN tot @@ (key :> 1)
        ELSE [tot EXCEPT ![key] = @ + 1]

ScanNames(nms, row) ==
    LET idx == trip_idx
        sid == row[idx["start station id"]]
        eid == row[idx["end station id"]]
        n1  == IF sid \notin DOMAIN nms
               THEN nms @@ (sid :> row[idx["start station name"]])
               ELSE nms
    IN  IF eid \notin DOMAIN n1
        THEN n1 @@ (eid :> row[idx["end station name"]])
        ELSE n1

\* The key of total_names an id pair of total is folded into.
NameKey(nms, key) == <<nms[key[1]], nms[key[2]]>>

(***************************************************************************)
(* extract_from_trip_fact, the `for key in total` loop: keys is what the   *)
(* loop has still to visit, acc the total_names built so far.              *)
(***************************************************************************)
RECURSIVE Rekey(_, _, _, _)
Rekey(keys, tot, nms, acc) ==
    IF keys = {} THEN acc
    ELSE LET key == CHOOSE k \in keys : TRUE
             nk  == NameKey(nms, key)
             nxt == IF nk \notin DOMAIN acc
                    THEN acc @@ (nk :> [route_id |-> None, num_trips |-> tot[key]])
                    ELSE [acc EXCEPT ![nk].num_trips = @ + tot[key]]
         IN  Rekey(keys \ {key}, tot, nms, nxt)

\* extract_from_trip_fact as one function of the rows of the table.
RECURSIVE ScanAll(_, _, _)
ScanAll(rows, tot, nms) ==
    IF rows = <<>> THEN <<tot, nms>>
    ELSE ScanAll(Tail(rows), ScanTotal(tot, Head(rows)), ScanNames(nms, Head(rows)))

extract_from_trip_fact(rows) ==
    LET s == ScanAll(rows, EmptyDict, EmptyDict)
    IN  Rekey(DOMAIN s[1], s[1], s[2], EmptyDict)

(***************************************************************************)
(* Rows of most_used_routes, in the column order of the CREATE TABLE of    *)
(* main, which is also the order reduceByKey_most_used_routes selects.     *)
(***************************************************************************)
NamePairs == StationNames \X StationNames

RouteKey(row) ==
    LET idx == route_idx
    IN  <<row[idx["start_station_name"]], row[idx["end_station_name"]]>>

\* ReduceRow with num_trips assigned the persisted count instead of increased by it.
ReduceRowNoAdd(tn, row) ==
    LET idx == route_idx
        key == RouteKey(row)
    IN  IF key \in DOMAIN tn
        THEN [tn EXCEPT ![key].route_id = row[idx["route_id"]],
                        ![key].num_trips = row[idx["num_trips"]]]
        ELSE tn

\* ReduceRow keeping the route_id of the first matching row.
ReduceRowFirstId(tn, row) ==
    LET idx == route_idx
        key == RouteKey(row)
    IN  IF key \in DOMAIN tn
        THEN [tn EXCEPT ![key].route_id = IF @ = None THEN row[idx["route_id"]] ELSE @,
                        ![key].num_trips = @ + row[idx["num_trips"]]]
        ELSE tn

\* ReduceRow without the assignment of route_id.
ReduceRowNoId(tn, row) ==
    LET idx == route_idx
        key == RouteKey(row)
    IN  IF key \in DOMAIN tn
        THEN [tn EXCEPT ![key].num_trips = @ + row[idx["num_trips"]]]
        ELSE tn

\* reduceByKey_most_used_routes, the body of the `while row` loop.
ReduceRow(tn, row) ==
    LET idx == route_idx
        key == RouteKey(row)
    IN  IF key \in DOMAIN tn
        THEN [tn EXCEPT ![key].route_id = row[idx["route_id"]],
                        ![key].num_trips = @ + row[idx["num_trips"]]]
        ELSE tn

(***************************************************************************)
(* modify_most_used_routes: the two parameter arrays, built in the order   *)
(* `order` in which the dict hands out its keys.                           *)
(***************************************************************************)
InsertTuple(tn, key) == <<key[1], key[2], tn[key].num_trips>>

UpdateTuple(tn, key) == <<tn[key].num_trips, tn[key].route_id>>

\* IsInsert without the test of route_id.
IsInsertAlways(tn, key, insert_only) == TRUE

IsInsert(tn, key, insert_only) == insert_only \/ tn[key].route_id = None

InsertArray(tn, order, insert_only) ==
    LET sel == SelectSeq(order, LAMBDA key : IsInsert(tn, key, insert_only))
    IN  [i \in DOMAIN sel |-> InsertTuple(tn, sel[i])]

UpdateArray(tn, order, insert_only) ==
    LET sel == SelectSeq(order, LAMBDA key : ~IsInsert(tn, key, insert_only))
    IN  [i \in DOMAIN sel |-> UpdateTuple(tn, sel[i])]

(***************************************************************************)
(* The statements of the two batches, applied to a table.                  *)
(***************************************************************************)
\* ApplyUpdate without the WHERE clause.
ApplyUpdateAll(table, u) ==
    LET idx == route_idx
    IN  [i \in DOMAIN table |-> [table[i] EXCEPT ![idx["num_trips"]] = u[1]]]

\* ApplyUpdate with SET num_trips = num_trips + %s.
ApplyUpdateAdd(table, u) ==
    LET idx == route_idx
    IN  [i \in DOMAIN table |->
            IF table[i][idx["route_id"]] = u[2]
            THEN [table[i] EXCEPT ![idx["num_trips"]] = @ + u[1]]
            ELSE table[i]]

\* UPDATE most_used_routes SET num_trips = %s WHERE route_id = %s
ApplyUpdate(table, u) ==
    LET idx == route_idx
    IN  [i \in DOMAIN table |->
            IF table[i][idx["route_id"]] = u[2]
            THEN [table[i] EXCEPT ![idx["num_trips"]] = u[1]]
            ELSE table[i]]

RECURSIVE ApplyUpdates(_, _)
ApplyUpdates(table, us) ==
    IF us = <<>> THEN table
    ELSE ApplyUpdates(ApplyUpdate(table, Head(us)), Tail(us))

\* INSERT INTO most_used_routes (start_station_name, end_station_name, num_trips):
\* route_id is drawn from the serial sequence, statement by statement.
InsertedRows(ins, first_id) ==
    [i \in DOMAIN ins |-> <<first_id + i - 1, ins[i][1], ins[i][2], ins[i][3]>>]

NoWork == [upd |-> <<>>, ins |-> <<>>]

\* The table after the transaction holding the writes w has committed.
Committed(table, w) == ApplyUpdates(table, w.upd) \o w.ins

\* The rows on which the open transaction of p holds a row lock.
Locked(p) == {work[p].upd[i][2] : i \in DOMAIN work[p].upd}

CanLock(p, us) ==
    \A q \in Procs \ {p} : Locked(q) \cap {us[i][2] : i \in DOMAIN us} = {}

(***************************************************************************)
(* main: the calls it makes, in order.                                     *)
(***************************************************************************)
Main == <<"load_fact", "create_routes", "extract_fact", "modify_insert",
          "load_stg", "extract_stg", "reduce", "modify_update", "close">>

Goto(p, l) == pc' = [pc EXCEPT ![p] = l]

\* The call returns: main goes on to its next call.
Return(p) ==
    /\ pc' = [pc EXCEPT ![p] = IF script[p] = <<>> THEN "done" ELSE Head(script[p])]
    /\ script' = [script EXCEPT ![p] = IF script[p] = <<>> THEN <<>> ELSE Tail(script[p])]

\* data_for_month over the months of trip_fact: the rows are copied into the
\* table, or a month cannot be read and main returns -1.
LoadFact(p) ==
    /\ pc[p] = "load_fact"
    /\ \/ /\ \E rows \in SeqsUpTo(TripRows, MaxFactRows) : trip_fact' = trip_fact \o rows
          /\ Return(p)
       \/ /\ Goto(p, "exited")
          /\ UNCHANGED <<script, trip_fact>>
    /\ UNCHANGED <<trip_fact_stg, routes, next_id, cur, total, names, total_names,
                   insert_array, update_array, work, extracted, only_insert, before, hist>>

LoadStg(p) ==
    /\ pc[p] = "load_stg"
    /\ \/ /\ \E rows \in SeqsUpTo(TripRows, MaxStgRows) :
                trip_fact_stg' = trip_fact_stg \o rows
          /\ Return(p)
       \/ /\ Goto(p, "exited")
          /\ UNCHANGED <<script, trip_fact_stg>>
    /\ UNCHANGED <<trip_fact, routes, next_id, cur, total, names, total_names,
                   insert_array, update_array, work, extracted, only_insert, before, hist>>

\* CREATE TABLE most_used_routes, committed.
CreateRoutes(p) ==
    /\ pc[p] = "create_routes"
    /\ routes' = <<>>
    /\ next_id' = 1
    /\ Return(p)
    /\ UNCHANGED <<trip_fact, trip_fact_stg, cur, total, names, total_names,
                   insert_array, update_array, work, extracted, only_insert, before, hist>>

\* extract_from_trip_fact up to the first fetchone.
ExtractSelect(p) ==
    /\ pc[p] \in {"extract_fact", "extract_stg"}
    /\ cur' = [cur EXCEPT ![p] = IF pc[p] = "extract_fact" THEN trip_fact
                                                            ELSE trip_fact_stg]
    /\ total' = [total EXCEPT ![p] = EmptyDict]
    /\ names' = [names EXCEPT ![p] = EmptyDict]
    /\ total_names' = [total_names EXCEPT ![p] = EmptyDict]
    /\ Goto(p, "extract_scan")
    /\ UNCHANGED <<script, trip_fact, trip_fact_stg, routes, next_id, insert_array,
                   update_array, work, extracted, only_insert, before, hist>>

ExtractRow(p) ==
    /\ pc[p] = "extract_scan"
    /\ cur[p] # <<>>
    /\ total' = [total EXCEPT ![p] = ScanTotal(@, Head(cur[p]))]
    /\ names' = [names EXCEPT ![p] = ScanNames(@, Head(cur[p]))]
    /\ cur' = [cur EXCEPT ![p] = Tail(@)]
    /\ UNCHANGED <<pc, script, trip_fact, trip_fact_stg, routes, next_id, total_names,
                   insert_array, update_array, work, extracted, only_insert, before, hist>>

ExtractRekey(p) ==
    /\ pc[p] = "extract_scan"
    /\ cur[p] = <<>>
    /\ total_names' = [total_names EXCEPT
                         ![p] = Rekey(DOMAIN total[p], total[p], names[p], EmptyDict)]
    /\ extracted' = [extracted EXCEPT ![p] = total_names'[p]]
    /\ Return(p)
    /\ UNCHANGED <<trip_fact, trip_fact_stg, routes, next_id, cur, total, names,
                   insert_array, update_array, work, before, hist, only_insert>>

\* reduceByKey_most_used_routes up to the first fetchone: the SELECT sees the
\* committed rows.
ReduceSelect(p) ==
    /\ pc[p] = "reduce"
    /\ cur' = [cur EXCEPT ![p] = routes]
    /\ hist' = Append(hist, <<"read", p, routes>>)
    /\ Goto(p, "reduce_scan")
    /\ UNCHANGED <<script, trip_fact, trip_fact_stg, routes, next_id, total, names,
                   total_names, insert_array, update_array, work, extracted, only_insert, before>>

ReduceFetch(p) ==
    /\ pc[p] = "reduce_scan"
    /\ cur[p] # <<>>
    /\ total_names' = [total_names EXCEPT ![p] = ReduceRow(@, Head(cur[p]))]
    /\ cur' = [cur EXCEPT ![p] = Tail(@)]
    /\ UNCHANGED <<pc, script, trip_fact, trip_fact_stg, routes, next_id, total, names,
                   insert_array, update_array, work, extracted, only_insert, before, hist>>

ReduceReturn(p) ==
    /\ pc[p] = "reduce_scan"
    /\ cur[p] = <<>>
    /\ Return(p)
    /\ UNCHANGED <<trip_fact, trip_fact_stg, routes, next_id, cur, total, names,
                   total_names, insert_array, update_array, work, extracted, only_insert, before,
                   hist>>

\* modify_most_used_routes up to the first execute_batch.
Plan(p) ==
    /\ pc[p] \in {"modify_insert", "modify_update"}
    /\ \E order \in Orders(DOMAIN total_names[p]) :
          /\ insert_array' = [insert_array EXCEPT
                ![p] = InsertArray(total_names[p], order, pc[p] = "modify_insert")]
          /\ update_array' = [update_array EXCEPT
                ![p] = UpdateArray(total_names[p], order, pc[p] = "modify_insert")]
    /\ only_insert' = [only_insert EXCEPT ![p] = (pc[p] = "modify_insert")]
    /\ before' = [before EXCEPT ![p] = routes]
    /\ Goto(p, IF pc[p] = "modify_insert" THEN "exec_insert" ELSE "exec_update")
    /\ UNCHANGED <<script, trip_fact, trip_fact_stg, routes, next_id, cur, total,
                   names, total_names, work, extracted, hist>>

\* ExecUpdate on a connection in autocommit mode: every statement is
\* committed as it runs.
ExecUpdateAutocommit(p) ==
    /\ pc[p] = "exec_update"
    /\ \/ /\ routes' = ApplyUpdates(routes, update_array[p])
          /\ Goto(p, "exec_insert")
       \/ /\ \E k \in 0..(Len(update_array[p]) - 1) :
                routes' = ApplyUpdates(routes, SubSeq(update_array[p], 1, k))
          /\ Goto(p, "raised")
    /\ UNCHANGED <<script, trip_fact, trip_fact_stg, next_id, cur, total, names,
                   total_names, insert_array, update_array, work, extracted,
                   only_insert, before, hist>>

\* extras.execute_batch(cur, update_sql, update_array): every statement runs
\* in the open transaction, or the statement after the first k raises.
ExecUpdate(p) ==
    /\ pc[p] = "exec_update"
    /\ \/ /\ CanLock(p, update_array[p])
          /\ work' = [work EXCEPT ![p].upd = update_array[p]]
          /\ Goto(p, "exec_insert")
       \/ /\ \E k \in 0..(Len(update_array[p]) - 1) :
                /\ CanLock(p, SubSeq(update_array[p], 1, k))
                /\ work' = [work EXCEPT ![p].upd = SubSeq(update_array[p], 1, k)]
          /\ Goto(p, "raised")
    /\ UNCHANGED <<script, trip_fact, trip_fact_stg, routes, next_id, cur, total,
                   names, total_names, insert_array, update_array, extracted, only_insert, before,
                   hist>>

\* extras.execute_batch(cur, insert_sql, insert_array), likewise.  The
\* sequence is not transactional: the values drawn stay drawn.
ExecInsert(p) ==
    /\ pc[p] = "exec_insert"
    /\ \/ /\ work' = [work EXCEPT ![p].ins = InsertedRows(insert_array[p], next_id)]
          /\ next_id' = next_id + Len(insert_array[p])
          /\ Goto(p, "commit")
       \/ /\ \E k \in 0..(Len(insert_array[p]) - 1) :
                /\ work' = [work EXCEPT
                      ![p].ins = InsertedRows(SubSeq(insert_array[p], 1, k), next_id)]
                /\ next_id' = next_id + k + 1
          /\ Goto(p, "raised")
    /\ UNCHANGED <<script, trip_fact, trip_fact_stg, routes, cur, total, names,
                   total_names, insert_array, update_array, extracted, only_insert, before, hist>>

\* conn.commit() of modify_most_used_routes.
Commit(p) ==
    /\ pc[p] = "commit"
    /\ routes' = Committed(routes, work[p])
    /\ work' = [work EXCEPT ![p] = NoWork]
    /\ hist' = Append(hist, <<"commit", p, routes'>>)
    /\ Return(p)
    /\ UNCHANGED <<trip_fact, trip_fact_stg, next_id, cur, total, names, total_names,
                   insert_array, update_array, extracted, only_insert, before>>

\* Nothing catches the exception: the program ends, its connection is
\* dropped and the server rolls the open transaction back.
Abort(p) ==
    /\ pc[p] = "raised"
    /\ work' = [work EXCEPT ![p] = NoWork]
    /\ Goto(p, "crashed")
    /\ UNCHANGED <<script, trip_fact, trip_fact_stg, routes, next_id, cur, total,
                   names, total_names, insert_array, update_array, extracted, only_insert, before,
                   hist>>

\* conn.close()
Close(p) ==
    /\ pc[p] = "close"
    /\ Return(p)
    /\ UNCHANGED <<trip_fact, trip_fact_stg, routes, next_id, cur, total, names,
                   total_names, insert_array, update_array, work, extracted, only_insert, before,
                   hist>>

Next ==
    \E p \in Procs :
        \/ LoadFact(p)
        \/ LoadStg(p)
        \/ CreateRoutes(p)
        \/ ExtractSelect(p)
        \/ ExtractRow(p)
        \/ ExtractRekey(p)
        \/ ReduceSelect(p)
        \/ ReduceFetch(p)
        \/ ReduceReturn(p)
        \/ Plan(p)
        \/ ExecUpdate(p)
        \/ ExecInsert(p)
        \/ Commit(p)
        \/ Abort(p)
        \/ Close(p)

(***************************************************************************)
(* The initial states.                                                     *)
(***************************************************************************)
Idle ==
    /\ cur = [p \in Procs |-> <<>>]
    /\ total = [p \in Procs |-> EmptyDict]
    /\ names = [p \in Procs |-> EmptyDict]
    /\ insert_array = [p \in Procs |-> <<>>]
    /\ update_array = [p \in Procs |-> <<>>]
    /\ work = [p \in Procs |-> NoWork]
    /\ before = [p \in Procs |-> <<>>]
    /\ hist = <<>>
    /\ only_insert = [p \in Procs |-> FALSE]

\* One run of main against a database without the three tables.
Init ==
    /\ Idle
    /\ pc = [p \in Procs |-> IF p = 1 THEN Head(Main) ELSE "done"]
    /\ script = [p \in Procs |-> IF p = 1 THEN Tail(Main) ELSE <<>>]
    /\ trip_fact = <<>>
    /\ trip_fact_stg = <<>>
    /\ routes = <<>>
    /\ next_id = 1
    /\ total_names = [p \in Procs |-> EmptyDict]
    /\ extracted = [p \in Procs |-> EmptyDict]

Spec == Init /\ [][Next]_vars

(***************************************************************************)
(* extract_from_trip_fact on its own, over every table of at most MaxRows  *)
(* raw trip rows.                                                          *)
(***************************************************************************)
InitExtract ==
    /\ Idle
    /\ pc = [p \in Procs |-> IF p = 1 THEN "extract_fact" ELSE "done"]
    /\ script = [p \in Procs |-> <<>>]
    /\ trip_fact \in SeqsUpTo(TripRows, MaxRows)
    /\ trip_fact_stg = <<>>
    /\ routes = <<>>
    /\ next_id = 1
    /\ total_names = [p \in Procs |-> EmptyDict]
    /\ extracted = [p \in Procs |-> EmptyDict]

NextExtract ==
    \E p \in Procs :
        \/ ExtractSelect(p)
        \/ ExtractRow(p)
        \/ ExtractRekey(p)

SpecExtract == InitExtract /\ [][NextExtract]_vars

\* What the claims about the extraction are stated in: the observations of
\* (station id, station name) in scan order, the start station of a row
\* before its end station.
Observations(rows) ==
    [n \in 1..(2 * Len(rows)) |->
        LET row == rows[(n + 1) \div 2]
        IN  IF n % 2 = 1 THEN <<row[1], row[2]>> ELSE <<row[3], row[4]>>]

Observed(rows) == {Observations(rows)[n][1] : n \in DOMAIN Observations(rows)}

FirstName(rows, id) ==
    LET obs   == Observations(rows)
        first == CHOOSE n \in DOMAIN obs :
                    /\ obs[n][1] = id
                    /\ \A m \in DOMAIN obs : obs[m][1] = id => n <= m
    IN  obs[first][2]

Resolved(rows, row) == <<FirstName(rows, row[1]), FirstName(rows, row[3])>>

RowsResolvedTo(rows, key) == {i \in DOMAIN rows : Resolved(rows, rows[i]) = key}

RECURSIVE SumTrips(_, _)
SumTrips(tn, keys) ==
    IF keys = {} THEN 0
    ELSE LET key == CHOOSE k \in keys : TRUE
         IN  tn[key].num_trips + SumTrips(tn, keys \ {key})

TripsUnder(tn, key) == IF key \in DOMAIN tn THEN tn[key].num_trips ELSE 0

Scanned(p) == SubSeq(trip_fact, 1, Len(trip_fact) - Len(cur[p]))

\* C1: when extract_from_trip_fact has returned, the num_trips of the keys
\* of the mapping add up to the number of raw trip rows scanned, and an
\* empty table gives the empty mapping.
C1_CountConservation ==
    pc[1] = "done" =>
        /\ SumTrips(total_names[1], DOMAIN total_names[1]) = Len(trip_fact)
        /\ (trip_fact = <<>> => DOMAIN total_names[1] = {})

\* Three rows scanned, two id pairs folded into one name pair.
C1_Witness ==
    /\ pc[1] = "done"
    /\ Len(trip_fact) >= 3
    /\ Cardinality(DOMAIN total[1]) > Cardinality(DOMAIN total_names[1])

\* C2: every station id is resolved to the first name observed for it in
\* scan order, the keys of the mapping are the resolved name pairs of the
\* rows, and the num_trips of a key is the number of rows that resolve to it.
C2_FirstNameCounts ==
    pc[1] = "done" =>
        /\ DOMAIN names[1] = Observed(trip_fact)
        /\ \A id \in DOMAIN names[1] : names[1][id] = FirstName(trip_fact, id)
        /\ DOMAIN total_names[1] =
              {Resolved(trip_fact, trip_fact[i]) : i \in DOMAIN trip_fact}
        /\ \A key \in DOMAIN total_names[1] :
              /\ total_names[1][key].num_trips =
                    Cardinality(RowsResolvedTo(trip_fact, key))
              /\ total_names[1][key].route_id = None

\* An id seen with two names, and two id pairs that resolve to one name pair.
C2_Witness ==
    /\ pc[1] = "done"
    /\ \E i, j \in DOMAIN trip_fact : trip_fact[i][1] = trip_fact[j][1]
                                      /\ trip_fact[i][2] # trip_fact[j][2]
    /\ \E i, j \in DOMAIN trip_fact :
          /\ <<trip_fact[i][1], trip_fact[i][3]>> # <<trip_fact[j][1], trip_fact[j][3]>>
          /\ Resolved(trip_fact, trip_fact[i]) = Resolved(trip_fact, trip_fact[j])

\* C3: the pair is ordered.  While the table is scanned, the count kept for
\* the id pair (i, j) is the number of rows scanned from i to j, none of them
\* from j to i; when the function has returned, what is counted under the
\* name pair (a, b) is the number of rows that resolve to (a, b), whatever
\* the number of rows that resolve to (b, a).
C3_PairOrder ==
    /\ pc[1] = "extract_scan" =>
          \A i, j \in StationIds :
             (IF <<i, j>> \in DOMAIN total[1] THEN total[1][<<i, j>>] ELSE 0) =
                Cardinality({n \in DOMAIN Scanned(1) :
                                Scanned(1)[n][1] = i /\ Scanned(1)[n][3] = j})
    /\ pc[1] = "done" =>
          \A a, b \in StationNames :
             a # b => TripsUnder(total_names[1], <<a, b>>) =
                         Cardinality(RowsResolvedTo(trip_fact, <<a, b>>))

\* Two trips from A to B and one from B to A.
C3_Witness ==
    /\ pc[1] = "done"
    /\ TripsUnder(total_names[1], <<"A", "B">>) = 2
    /\ TripsUnder(total_names[1], <<"B", "A">>) = 1

(***************************************************************************)
(* One batch on its own: main from the call of                             *)
(* reduceByKey_most_used_routes on, over every mapping an extraction can   *)
(* return and every content of most_used_routes (the table declares no     *)
(* uniqueness of the name pair); or the insert-only batch of main, on the  *)
(* table just created.                                                     *)
(***************************************************************************)
RouteContents == StationNames \X StationNames \X Counts

\* The rows in the order a SELECT returns them: the order in which they drew
\* their route_id from the serial sequence, or the reverse of it.
PersistedTables ==
    UNION {{[i \in DOMAIN c |-> <<i, c[i][1], c[i][2], c[i][3]>>],
            [i \in DOMAIN c |-> <<Len(c) + 1 - i, c[i][1], c[i][2], c[i][3]>>]} :
              c \in SeqsUpTo(RouteContents, MaxPersisted)}

Mappings ==
    UNION {[K -> [route_id : {None}, num_trips : Counts]] :
              K \in {S \in SUBSET NamePairs : Cardinality(S) <= MaxKeys}}

InitBatch ==
    /\ Idle
    /\ trip_fact = <<>>
    /\ trip_fact_stg = <<>>
    /\ routes \in PersistedTables
    /\ next_id = MaxPersisted + 1
    /\ \E m \in Mappings :
          /\ total_names = [p \in Procs |-> IF p = 1 THEN m ELSE EmptyDict]
          /\ extracted = total_names
    /\ \E first \in BOOLEAN :
          /\ first => routes = <<>>
          /\ pc = [p \in Procs |-> IF p # 1 THEN "done"
                                   ELSE IF first THEN "modify_insert" ELSE "reduce"]
          /\ script = [p \in Procs |-> IF p = 1 /\ ~first THEN <<"modify_update">>
                                                           ELSE <<>>]

NextBatch ==
    \E p \in Procs :
        \/ ReduceSelect(p)
        \/ ReduceFetch(p)
        \/ ReduceReturn(p)
        \/ Plan(p)
        \/ ExecUpdate(p)
        \/ ExecInsert(p)
        \/ Commit(p)
        \/ Abort(p)

SpecBatch == InitBatch /\ [][NextBatch]_vars

RowsWithKey(table, key) == {i \in DOMAIN table : RouteKey(table[i]) = key}

UniqueKeys(table) ==
    \A i, j \in DOMAIN table : RouteKey(table[i]) = RouteKey(table[j]) => i = j

\* C4: reduceByKey_most_used_routes has returned and the persisted table
\* holds at most one row per name pair: a key with a persisted row has that
\* row's route_id and its batch count plus the row's num_trips, a key
\* without one has route_id None and its batch count.
C4_Reconciled ==
    (pc[1] = "modify_update" /\ UniqueKeys(routes)) =>
        /\ DOMAIN total_names[1] = DOMAIN extracted[1]
        /\ \A key \in DOMAIN total_names[1] :
              IF RowsWithKey(routes, key) = {}
              THEN total_names[1][key] = extracted[1][key]
              ELSE \A i \in RowsWithKey(routes, key) :
                      /\ total_names[1][key].route_id = routes[i][1]
                      /\ total_names[1][key].num_trips =
                            extracted[1][key].num_trips + routes[i][4]

\* Two persisted rows with distinct name pairs, one key matched and one not.
C4_Witness ==
    /\ pc[1] = "modify_update"
    /\ UniqueKeys(routes)
    /\ Len(routes) = 2
    /\ \E key \in DOMAIN total_names[1] : RowsWithKey(routes, key) # {}
    /\ \E key \in DOMAIN total_names[1] : RowsWithKey(routes, key) = {}

AfterPlan == {"exec_update", "exec_insert", "commit", "raised", "crashed", "done"}

Occurrences(seq, x) == Cardinality({i \in DOMAIN seq : seq[i] = x})

\* C5: modify_most_used_routes plans exactly one statement per key.  With
\* only_insert every key gives one insert (start name, end name, num_trips)
\* and there is no update; without it a key gives one insert if its
\* route_id is None and one update (num_trips, route_id) otherwise, and the
\* committed updates change the rows with these route ids and no other row,
\* whatever their names.
C5_OneMutationPerKey ==
    pc[1] \in AfterPlan =>
        LET tn == total_names[1]
            ia == insert_array[1]
            ua == update_array[1]
        IN  /\ Len(ia) + Len(ua) = Cardinality(DOMAIN tn)
            /\ only_insert[1] => ua = <<>> /\ Len(ia) = Cardinality(DOMAIN tn)
            /\ \A key \in DOMAIN tn :
                  IF only_insert[1] \/ tn[key].route_id = None
                  THEN /\ Occurrences(ia, <<key[1], key[2], tn[key].num_trips>>) = 1
                       /\ \A j \in DOMAIN ua : ua[j][2] # tn[key].route_id
                  ELSE /\ Occurrences(ua, <<tn[key].num_trips, tn[key].route_id>>) = 1
                       /\ \A i \in DOMAIN ia : <<ia[i][1], ia[i][2]>> # key
            /\ pc[1] = "done" =>
                  \A i \in DOMAIN before[1] :
                     LET hits == {j \in DOMAIN ua : ua[j][2] = before[1][i][1]}
                     IN  IF hits = {}
                         THEN routes[i] = before[1][i]
                         ELSE \A j \in hits :
                                 routes[i] = [before[1][i] EXCEPT ![4] = ua[j][1]]

\* A batch without only_insert that has committed one insert and one update,
\* the updated row sharing its name pair with a row that is not updated.
C5_Witness ==
    /\ pc[1] = "done"
    /\ ~only_insert[1]
    /\ Len(insert_array[1]) = 1
    /\ Len(update_array[1]) = 1
    /\ \E i, j \in DOMAIN before[1] :
          /\ i # j
          /\ RouteKey(before[1][i]) = RouteKey(before[1][j])
          /\ routes[i] # before[1][i]
          /\ routes[j] = before[1][j]

\* The table with both batches of p applied.
BothApplied(p) ==
    /\ Len(routes) = Len(before[p]) + Len(insert_array[p])
    /\ \A i \in DOMAIN before[p] :
          LET hits == {j \in DOMAIN update_array[p] :
                          update_array[p][j][2] = before[p][i][1]}
          IN  IF hits = {} THEN routes[i] = before[p][i]
              ELSE \A j \in hits :
                      routes[i] = [before[p][i] EXCEPT ![4] = update_array[p][j][1]]
    /\ \A i \in DOMAIN insert_array[p] :
          LET row == routes[Len(before[p]) + i]
          IN  <<row[2], row[3], row[4]>> = insert_array[p][i]

\* C6: the two batches of one call are one unit of work.  From the first
\* execute_batch until the commit, and for good when a statement of either
\* batch has raised, the committed table is the table the call found; after
\* the commit it is that table with both batches applied in full.
C6_AtomicBatches ==
    /\ pc[1] \in {"exec_update", "exec_insert", "commit", "raised", "crashed"} =>
          routes = before[1]
    /\ pc[1] = "done" => BothApplied(1)

\* The update batch ran in full, then the first statement of the insert
\* batch raised.
C6_Witness ==
    /\ pc[1] = "raised"
    /\ work[1].upd # <<>>
    /\ work[1].upd = update_array[1]
    /\ insert_array[1] # <<>>

\* C7: a persisted row whose name pair is not a key of the batch's
\* extraction is where it was, with the route_id, names and num_trips it had.
C7_AbsentRowsUntouched ==
    \A i \in DOMAIN before[1] :
        RouteKey(before[1][i]) \notin DOMAIN extracted[1] =>
            i \in DOMAIN routes /\ routes[i] = before[1][i]

\* A committed reconciled batch that updated one row, inserted one and found
\* a row of another name pair.
C7_Witness ==
    /\ pc[1] = "done"
    /\ ~only_insert[1]
    /\ Len(routes) > Len(before[1])
    /\ \E i \in DOMAIN before[1] : routes[i] # before[1][i]
    /\ \E i \in DOMAIN before[1] : RouteKey(before[1][i]) \notin DOMAIN extracted[1]

RECURSIVE SumRows(_, _)
SumRows(table, is) ==
    IF is = {} THEN 0
    ELSE LET i == CHOOSE n \in is : TRUE
         IN  table[i][4] + SumRows(table, is \ {i})

LastRow(table, key) ==
    CHOOSE i \in RowsWithKey(table, key) : \A j \in RowsWithKey(table, key) : j <= i

\* C9 as claimed: a key with several persisted rows ends with the route_id
\* of the last row of the scan and its batch count plus that row's num_trips
\* only.  The code adds the num_trips of every one of the rows.
C9_LastSeenCountWins ==
    pc[1] = "modify_update" =>
        \A key \in DOMAIN total_names[1] :
            RowsWithKey(routes, key) # {} =>
                LET last == routes[LastRow(routes, key)]
                IN  /\ total_names[1][key].route_id = last[1]
                    /\ total_names[1][key].num_trips =
                          extracted[1][key].num_trips + last[4]

\* C9, amended: a key with several persisted rows ends with the route_id of
\* the last row of the scan and its batch count plus the num_trips of all of
\* them.
C9_LastIdSumOfCounts ==
    pc[1] = "modify_update" =>
        \A key \in DOMAIN total_names[1] :
            RowsWithKey(routes, key) # {} =>
                LET last == routes[LastRow(routes, key)]
                IN  /\ total_names[1][key].route_id = last[1]
                    /\ total_names[1][key].num_trips =
                          extracted[1][key].num_trips
                             + SumRows(routes, RowsWithKey(routes, key))

\* Two persisted rows of one name pair that is a key of the mapping, the
\* later one with the smaller route_id.
C9_Witness ==
    /\ pc[1] = "modify_update"
    /\ \E key \in DOMAIN total_names[1] :
          /\ Cardinality(RowsWithKey(routes, key)) = 2
          /\ routes[1][1] > routes[2][1]

\* C8: through the batches of main, most_used_routes never holds two
\* committed rows with one (start_station_name, end_station_name), and no
\* step removes a row or changes the route_id or the names of one.
C8_NoDuplicatesStableIds ==
    /\ UniqueKeys(routes)
    /\ [][/\ UniqueKeys(routes')
          /\ \A i \in DOMAIN routes :
                /\ i \in DOMAIN routes'
                /\ routes'[i][1] = routes[i][1]
                /\ RouteKey(routes'[i]) = RouteKey(routes[i])]_vars

\* main has ended after a second batch that changed the num_trips of a row
\* of the first.
C8_Witness ==
    /\ pc[1] = "done"
    /\ Len(hist) = 3
    /\ \E i \in DOMAIN before[1] : routes[i][4] > before[1][i][4]

(***************************************************************************)
(* Two reconciled batches at once, each on its own connection, on a table  *)
(* with at most one row per name pair.  PostgreSQL's default isolation     *)
(* (read committed): a SELECT sees what is committed when it runs, an      *)
(* UPDATE waits for the row locks of the other transaction.                *)
(***************************************************************************)
ConcPairs == {<<"A", "B">>, <<"B", "A">>}

ConcMappings == UNION {[K -> [route_id : {None}, num_trips : Counts]] : K \in SUBSET ConcPairs}

InitConc ==
    /\ Idle
    /\ trip_fact = <<>>
    /\ trip_fact_stg = <<>>
    /\ routes \in {t \in PersistedTables :
                      UniqueKeys(t) /\ \A i \in DOMAIN t : RouteKey(t[i]) \in ConcPairs}
    /\ next_id = MaxPersisted + 1
    /\ total_names \in [Procs -> ConcMappings]
    /\ extracted = total_names
    /\ pc = [p \in Procs |-> "reduce"]
    /\ script = [p \in Procs |-> <<"modify_update">>]

SpecConc == InitConc /\ [][NextBatch]_vars

\* Both SELECTs of most_used_routes ran before either commit.
BothReadStale == Len(hist) >= 2 /\ hist[1][1] = "read" /\ hist[2][1] = "read"

\* The process whose commit came last.
LastCommitter == hist[Len(hist)][2]

\* C10: both batches have committed, and the name pair `key` that both
\* extracted had a row in the table they started from.  If both read the
\* table before either committed, the row ends with the count it had plus
\* the batch count of the later commit alone, which is less than the count it
\* had plus both batch counts; if one committed before the other read, the
\* row ends with the count it had plus both batch counts.
C10_LostUpdate ==
    (\A p \in Procs : pc[p] = "done") =>
        LET start == hist[1][3]
        IN  \A i \in DOMAIN start :
               LET key == RouteKey(start[i])
               IN  (\A p \in Procs : key \in DOMAIN extracted[p]) =>
                      LET full == start[i][4] + extracted[1][key].num_trips
                                              + extracted[2][key].num_trips
                      IN  IF BothReadStale
                          THEN /\ routes[i][4] =
                                     start[i][4] + extracted[LastCommitter][key].num_trips
                               /\ routes[i][4] < full
                          ELSE routes[i][4] = full

\* Both read, then both committed: the row of the shared pair has lost the
\* trips of the first commit.
C10_Witness ==
    /\ \A p \in Procs : pc[p] = "done"
    /\ BothReadStale
    /\ \E i \in DOMAIN hist[1][3] :
          /\ \A p \in Procs : RouteKey(hist[1][3][i]) \in DOMAIN extracted[p]
          /\ routes[i][4] < hist[1][3][i][4] + extracted[1][RouteKey(hist[1][3][i])].num_trips
                                             + extracted[2][RouteKey(hist[1][3][i])].num_trips

====
